---- MODULE Spec2Model ----
(***************************************************************************)
(* Model of the Ollama demo scripts: classify_text and the label-saving    *)
(* handler of demo.py, and the captioning script image.py.                 *)
(*                                                                         *)
(* Strings are sequences of one-character strings, so that strip, lower,   *)
(* split, substring search, repr and JSON decoding are computed rather     *)
(* than assumed.  Fixed literals of the source (the instruction sentences, *)
(* the CSV header names) are kept as single elements of such a sequence.   *)
(* Floating values are integers counting hundredths (0.6 is 60).           *)
(***************************************************************************)
EXTENDS Integers, Sequences, FiniteSets, TLC

VARIABLES
    \* ---- classify_text (demo.py) ----
    pc,          \* position in classify_text: start, posted, parsed, returned, raised
    labels_csv,  \* the sidebar's "Labels (comma-separated)" input
    label_list,  \* demo.py:81
    text,        \* the text argument
    few_shots,   \* the few_shots argument
    prompt,      \* demo.py:34
    http,        \* what requests.post / raise_for_status produced
    out,         \* demo.py:56
    result,      \* the returned (label, confidence, raw) triple
    interpreted, \* whether lines 59-71 ran in this call
    \* ---- save handler (demo.py tab 2) ----
    files,       \* path -> "absent" or the file's content
    saved,       \* path -> records whose save was reported as a success
    failed,      \* path -> number of saves reported as a failure
    lastSave,    \* what the last click on "Save item" did
    \* ---- image.py ----
    ipc,         \* position in one run of the script
    upload,      \* what the file uploader holds
    clicked,     \* this run was started by a click on the caption button
    caption_prompt, \* the "Caption prompt" text input
    img,         \* outcome of Image.open / exif_transpose
    reencoded,   \* img_b64 was computed in this run
    buttonOffered, \* st.button("Generate caption ...") was rendered in this run
    requestsSent,  \* bodies POSTed to /api/generate in this run
    reported,    \* messages shown in this run
    runs         \* script runs started so far

classifyVars == <<pc, labels_csv, label_list, text, few_shots, prompt, http, out,
                  result, interpreted>>
saveVars == <<files, saved, failed, lastSave>>
imageVars == <<ipc, upload, clicked, caption_prompt, img, reencoded, buttonOffered, requestsSent, reported, runs>>
vars == <<classifyVars, saveVars, imageVars>>

(***************************************************************************)
(* Python string operations.                                               *)
(***************************************************************************)
\* a fixed literal of the source kept as one element
Str(lit) == <<lit>>

IsSpace(c) == c \in {" ", "\n", "\t", "\r"}

Lower(c) ==
    CASE c = "S" -> "s"
      [] c = "O" -> "o"
      [] c = "N" -> "n"
      [] c = "T" -> "t"
      [] c = "F" -> "f"
      [] OTHER -> c

LowerStr(s) == [i \in 1..Len(s) |-> Lower(s[i])]

RECURSIVE LStrip(_)
LStrip(s) ==
    IF s # <<>> /\ IsSpace(Head(s)) THEN LStrip(Tail(s)) ELSE s

RECURSIVE RStrip(_)
RStrip(s) ==
    IF s # <<>> /\ IsSpace(s[Len(s)]) THEN RStrip(SubSeq(s, 1, Len(s) - 1)) ELSE s

Strip(s) == RStrip(LStrip(s))

\* needle in hay
Contains(hay, needle) ==
    \E i \in 1..(Len(hay) - Len(needle) + 1) :
        SubSeq(hay, i, i + Len(needle) - 1) = needle

EndsWith(s, suffix) ==
    /\ Len(suffix) <= Len(s)
    /\ SubSeq(s, Len(s) - Len(suffix) + 1, Len(s)) = suffix

\* s.split(sep) for a one-character sep
RECURSIVE SplitFrom(_, _, _)
SplitFrom(s, sep, cur) ==
    IF s = <<>> THEN <<cur>>
    ELSE IF Head(s) = sep THEN <<cur>> \o SplitFrom(Tail(s), sep, <<>>)
    ELSE SplitFrom(Tail(s), sep, Append(cur, Head(s)))

Split(s, sep) == SplitFrom(s, sep, <<>>)

\* sep.join(parts)
RECURSIVE Join(_, _)
Join(sep, parts) ==
    IF parts = <<>> THEN <<>>
    ELSE IF Len(parts) = 1 THEN parts[1]
    ELSE parts[1] \o sep \o Join(sep, Tail(parts))

RECURSIVE SelectNonEmpty(_)
SelectNonEmpty(parts) ==
    IF parts = <<>> THEN <<>>
    ELSE IF Head(parts) # <<>> THEN <<Head(parts)>> \o SelectNonEmpty(Tail(parts))
    ELSE SelectNonEmpty(Tail(parts))

\* repr() of a str without backslashes or control characters
RECURSIVE EscapeQuote(_)
EscapeQuote(s) ==
    IF s = <<>> THEN <<>>
    ELSE (IF Head(s) = "'" THEN <<"\\", "'">> ELSE <<Head(s)>>) \o EscapeQuote(Tail(s))

PyRepr(s) ==
    IF (\E i \in 1..Len(s) : s[i] = "'") /\ ~(\E i \in 1..Len(s) : s[i] = "\"")
    THEN <<"\"">> \o s \o <<"\"">>
    ELSE <<"'">> \o EscapeQuote(s) \o <<"'">>

\* repr() of a list of str, as f"{label_list}" formats it
ListRepr(l) ==
    <<"[">> \o Join(<<",", " ">>, [i \in 1..Len(l) |-> PyRepr(l[i])]) \o <<"]">>

(***************************************************************************)
(* json.loads on the JSON subset the replies use: objects, arrays,         *)
(* strings without escapes, decimal numbers with at most two fraction      *)
(* digits, null, true, false.  A decoded value is a record                 *)
(*   [t, s, n, m]: t the Python type, s the characters of a str, n the     *)
(*   number in hundredths, m the items of a list or the <<key, value>>     *)
(*   pairs of a dict in document order.                                    *)
(***************************************************************************)
Digits == <<"0", "1", "2", "3", "4", "5", "6", "7", "8", "9">>

IsDigit(c) == \E d \in 1..10 : Digits[d] = c

DigitVal(c) == (CHOOSE d \in 1..10 : Digits[d] = c) - 1

JVal(t, s, n, m) == [t |-> t, s |-> s, n |-> n, m |-> m]

JFail == [ok |-> FALSE, v |-> JVal("none", <<>>, 0, <<>>), next |-> 0]

JOk(v, next) == [ok |-> TRUE, v |-> v, next |-> next]

At(s, i) == IF i >= 1 /\ i <= Len(s) THEN s[i] ELSE "EOF"

RECURSIVE SkipWs(_, _)
SkipWs(s, i) == IF IsSpace(At(s, i)) THEN SkipWs(s, i + 1) ELSE i

\* the position after the run of digits that starts at i
RECURSIVE DigitsEnd(_, _)
DigitsEnd(s, i) == IF IsDigit(At(s, i)) THEN DigitsEnd(s, i + 1) ELSE i

RECURSIVE DigitsVal(_, _, _)
DigitsVal(s, i, j) ==
    IF j <= i THEN 0 ELSE DigitsVal(s, i, j - 1) * 10 + DigitVal(s[j - 1])

\* hundredths denoted by the fraction digits s[i..j-1]
FracVal(s, i, j) ==
    IF j = i + 1 THEN DigitVal(s[i]) * 10
    ELSE DigitVal(s[i]) * 10 + DigitVal(s[i + 1])

\* the closing quote of the string whose opening quote is before i
RECURSIVE QuoteEnd(_, _)
QuoteEnd(s, i) ==
    IF i > Len(s) THEN 0
    ELSE IF s[i] = "\"" THEN i
    ELSE QuoteEnd(s, i + 1)

ParseString(s, i) ==
    IF At(s, i) # "\"" THEN JFail
    ELSE LET e == QuoteEnd(s, i + 1)
         IN IF e = 0 THEN JFail
            ELSE JOk(JVal("str", SubSeq(s, i + 1, e - 1), 0, <<>>), e + 1)

ParseNumber(s, i) ==
    LET neg == At(s, i) = "-"
        a == IF neg THEN i + 1 ELSE i
        \* a JSON integer part is 0, or starts with a nonzero digit
        b == IF At(s, a) = "0" THEN a + 1 ELSE DigitsEnd(s, a)
        hasFrac == At(s, b) = "." /\ IsDigit(At(s, b + 1))
        c == IF hasFrac THEN DigitsEnd(s, b + 1) ELSE b
        mag == DigitsVal(s, a, b) * 100 + (IF hasFrac THEN FracVal(s, b + 1, c) ELSE 0)
    IN IF b = a THEN JFail
       ELSE JOk(JVal(IF hasFrac THEN "float" ELSE "int", <<>>,
                     IF neg THEN 0 - mag ELSE mag, <<>>), c)

Keyword(s, i, word) ==
    /\ i + Len(word) - 1 <= Len(s)
    /\ SubSeq(s, i, i + Len(word) - 1) = word

RECURSIVE ParseValue(_, _), ParseElements(_, _, _), ParseMembers(_, _, _)
ParseValue(s, i) ==
    LET c == At(s, i)
    IN CASE c = "\"" -> ParseString(s, i)
         [] c = "{" ->
              LET j == SkipWs(s, i + 1)
              IN IF At(s, j) = "}" THEN JOk(JVal("dict", <<>>, 0, <<>>), j + 1)
                 ELSE ParseMembers(s, j, <<>>)
         [] c = "[" ->
              LET j == SkipWs(s, i + 1)
              IN IF At(s, j) = "]" THEN JOk(JVal("list", <<>>, 0, <<>>), j + 1)
                 ELSE ParseElements(s, j, <<>>)
         [] c = "n" /\ Keyword(s, i, <<"n", "u", "l", "l">>) ->
              JOk(JVal("NoneType", <<>>, 0, <<>>), i + 4)
         [] c = "t" /\ Keyword(s, i, <<"t", "r", "u", "e">>) ->
              JOk(JVal("bool", <<>>, 100, <<>>), i + 4)
         [] c = "f" /\ Keyword(s, i, <<"f", "a", "l", "s", "e">>) ->
              JOk(JVal("bool", <<>>, 0, <<>>), i + 5)
         [] c = "-" \/ IsDigit(c) -> ParseNumber(s, i)
         [] OTHER -> JFail

\* the elements of an array from i on, acc those already read
ParseElements(s, i, acc) ==
    LET r == ParseValue(s, i)
        j == SkipWs(s, r.next)
    IN IF ~r.ok THEN JFail
       ELSE IF At(s, j) = "," THEN ParseElements(s, SkipWs(s, j + 1), Append(acc, r.v))
       ELSE IF At(s, j) = "]" THEN JOk(JVal("list", <<>>, 0, Append(acc, r.v)), j + 1)
       ELSE JFail

\* the members of an object from i on, acc the pairs already read
ParseMembers(s, i, acc) ==
    LET k == ParseString(s, i)
        c == SkipWs(s, k.next)
        r == ParseValue(s, SkipWs(s, c + 1))
        j == SkipWs(s, r.next)
    IN IF ~k.ok \/ At(s, c) # ":" THEN JFail
       ELSE IF ~r.ok THEN JFail
       ELSE IF At(s, j) = ","
            THEN ParseMembers(s, SkipWs(s, j + 1), Append(acc, <<k.v.s, r.v>>))
       ELSE IF At(s, j) = "}"
            THEN JOk(JVal("dict", <<>>, 0, Append(acc, <<k.v.s, r.v>>)), j + 1)
       ELSE JFail

\* json.loads(s): the whole text must be one value
json_loads(s) ==
    LET r == ParseValue(s, SkipWs(s, 1))
    IN IF r.ok /\ SkipWs(s, r.next) = Len(s) + 1 THEN r ELSE JFail

\* d.get(key, default) on a decoded dict: the last pair with that key wins
DictHas(d, key) == \E i \in 1..Len(d.m) : d.m[i][1] = key

DictGet(d, key, default) ==
    IF DictHas(d, key)
    THEN d.m[CHOOSE i \in 1..Len(d.m) :
                 /\ d.m[i][1] = key
                 /\ \A j \in (i + 1)..Len(d.m) : d.m[j][1] # key][2]
    ELSE default

(***************************************************************************)
(* str() and float() of a decoded value.                                   *)
(***************************************************************************)
RECURSIVE NatChars(_)
NatChars(n) ==
    IF n < 10 THEN <<Digits[n + 1]>> ELSE NatChars(n \div 10) \o <<Digits[(n % 10) + 1]>>

IntChars(n) == IF n < 0 THEN <<"-">> \o NatChars(0 - n) ELSE NatChars(n)

\* repr of a float given in hundredths: 90 is 0.9, 100 is 1.0, 25 is 0.25
FloatChars(h) ==
    LET mag == IF h < 0 THEN 0 - h ELSE h
        frac == mag % 100
    IN (IF h < 0 THEN <<"-">> ELSE <<>>) \o NatChars(mag \div 100) \o <<".">>
       \o (IF frac % 10 = 0 THEN <<Digits[(frac \div 10) + 1]>>
           ELSE <<Digits[(frac \div 10) + 1], Digits[(frac % 10) + 1]>>)

RECURSIVE ValueRepr(_), PyStr(_)
ValueRepr(v) == IF v.t = "str" THEN PyRepr(v.s) ELSE PyStr(v)

PyStr(v) ==
    CASE v.t = "str" -> v.s
      [] v.t = "int" -> IntChars(v.n \div 100)
      [] v.t = "float" -> FloatChars(v.n)
      [] v.t = "NoneType" -> <<"N", "o", "n", "e">>
      [] v.t = "bool" -> IF v.n = 100 THEN <<"T", "r", "u", "e">>
                         ELSE <<"F", "a", "l", "s", "e">>
      [] v.t = "list" ->
           <<"[">> \o Join(<<",", " ">>, [i \in 1..Len(v.m) |-> ValueRepr(v.m[i])])
                   \o <<"]">>
      [] v.t = "dict" ->
           <<"{">> \o Join(<<",", " ">>,
                           [i \in 1..Len(v.m) |->
                               PyRepr(v.m[i][1]) \o <<":", " ">> \o ValueRepr(v.m[i][2])])
                   \o <<"}">>

\* float(str): optional sign, digits, optional fraction, surrounding whitespace
FloatOfStr(s) ==
    LET t == Strip(s)
        signed == At(t, 1) \in {"-", "+"}
        a == IF signed THEN 2 ELSE 1
        b == DigitsEnd(t, a)
        hasFrac == At(t, b) = "."
        c == IF hasFrac THEN DigitsEnd(t, b + 1) ELSE b
        mag == DigitsVal(t, a, b) * 100
               + (IF hasFrac /\ c > b + 1 THEN FracVal(t, b + 1, c) ELSE 0)
    IN IF c = Len(t) + 1 /\ (b > a \/ c > b + 1)
       THEN [ok |-> TRUE, n |-> IF At(t, 1) = "-" THEN 0 - mag ELSE mag]
       ELSE [ok |-> FALSE, n |-> 0]

\* float(v): a TypeError or ValueError is ok = FALSE
PyFloat(v) ==
    CASE v.t \in {"int", "float", "bool"} -> [ok |-> TRUE, n |-> v.n]
      [] v.t = "str" -> FloatOfStr(v.s)
      [] OTHER -> [ok |-> FALSE, n |-> 0]

(***************************************************************************)
(* demo.py: configuration, sentinels and the constants of classify_text.   *)
(***************************************************************************)
OLLAMA_BASE == "http://127.0.0.1:11434"

Other == <<"O", "t", "h", "e", "r">>

ERROR == <<"E", "R", "R", "O", "R">>

KeyLabel == <<"l", "a", "b", "e", "l">>

KeyConfidence == <<"c", "o", "n", "f", "i", "d", "e", "n", "c", "e">>

KeyResponse == <<"response">>

\* confidences in hundredths
ConfError == 0

ConfDefault == 50

ConfOther == 30

ConfMatch == 60

\* label_list = [x.strip() for x in labels_csv.split(",") if x.strip()]
LabelList(csv) ==
    LET parts == Split(csv, ",")
    IN SelectNonEmpty([i \in 1..Len(parts) |-> Strip(parts[i])])

(***************************************************************************)
(* Prompt Builder, demo.py:24-34.                                          *)
(***************************************************************************)
ChooseClause == "Choose exactly one label from "

ClauseEnd == ".\n"

System(labels) ==
    <<"You are an expert email text classifier.\n", ChooseClause>>
    \o ListRepr(labels)
    \o <<ClauseEnd,
         "Respond ONLY as compact JSON: {\"label\":\"<one>\",\"confidence\":0-1}.\n",
         "Do not include extra keys or explanations">>

Shots(shots) ==
    Join(<<"\n">>,
         [i \in 1..Len(shots) |->
             <<"Text: ">> \o shots[i].text \o <<"\n", "Label: ">> \o shots[i].label])

User(txt) == <<"Text: ">> \o txt \o <<"\n", "Label:">>

Prompt(labels, txt, shots) ==
    Strip(<<"<<SYS>>">> \o System(labels) \o <<"<<SYS>>", "\n", "\n">>
          \o Shots(shots) \o <<"\n", "\n">> \o User(txt))

(***************************************************************************)
(* Inference Client, demo.py:36-54.                                        *)
(***************************************************************************)
IsNetworkFailure(o) == o.kind # "response"

\* raise_for_status() taken to raise for server errors only
RaisesForServerErrorOnly(status) == status >= 500 /\ status < 600

\* resp.raise_for_status() raises for 400 <= status < 600
RaisesForStatus(status) == status >= 400 /\ status < 600

\* str(e) of the exception the try block ends with
FailureText(o) ==
    IF IsNetworkFailure(o) THEN <<o.cause>>
    ELSE IF o.status = 404
    THEN <<"Ollama API path not found (404). Is the server running at ",
           OLLAMA_BASE, "? Try ", "ollama serve", " or set OLLAMA_BASE.">>
    ELSE IntChars(o.status)
         \o <<IF o.status < 500 THEN " Client Error: " ELSE " Server Error: ",
              o.reason, " for url: ", OLLAMA_BASE, "/api/generate">>

RequestFails(o) ==
    IsNetworkFailure(o) \/ o.status = 404 \/ RaisesForStatus(o.status)

ErrorResult(o) ==
    [label |-> ERROR, confidence |-> ConfError,
     raw |-> <<"Request failed: ">> \o FailureText(o)]

(***************************************************************************)
(* demo.py:56: resp.json().get("response", "").strip()                     *)
(***************************************************************************)
EmptyStr == JVal("str", <<>>, 0, <<>>)

ReadResponse(body) ==
    IF ~body.json THEN [ok |-> FALSE, out |-> <<>>]         \* JSONDecodeError
    ELSE IF body.v.t # "dict" THEN [ok |-> FALSE, out |-> <<>>]   \* no .get
    ELSE LET r == DictGet(body.v, KeyResponse, EmptyStr)
         IN IF r.t # "str" THEN [ok |-> FALSE, out |-> <<>>]      \* no .strip
            ELSE [ok |-> TRUE, out |-> Strip(r.s)]

(***************************************************************************)
(* Response Interpreter, demo.py:59-71.                                    *)
(***************************************************************************)
\* lines 60-62 with data["confidence"] in place of data.get("confidence", 0.5)
StrictParseKeyError(o) ==
    LET d == json_loads(o)
    IN IF ~d.ok \/ d.v.t # "dict" \/ ~DictHas(d.v, KeyConfidence)
       THEN [ok |-> FALSE, label |-> <<>>, confidence |-> 0]
       ELSE LET label == PyStr(DictGet(d.v, KeyLabel, JVal("str", Other, 0, <<>>)))
                c == PyFloat(DictGet(d.v, KeyConfidence,
                                     JVal("float", <<>>, ConfDefault, <<>>)))
            IN IF ~c.ok THEN [ok |-> FALSE, label |-> <<>>, confidence |-> 0]
               ELSE [ok |-> TRUE, label |-> label, confidence |-> c.n]

\* lines 60-62; ok = FALSE when any of them raises
StrictParse(o) ==
    LET d == json_loads(o)
    IN IF ~d.ok \/ d.v.t # "dict" THEN [ok |-> FALSE, label |-> <<>>, confidence |-> 0]
       ELSE LET label == PyStr(DictGet(d.v, KeyLabel, JVal("str", Other, 0, <<>>)))
                c == PyFloat(DictGet(d.v, KeyConfidence,
                                     JVal("float", <<>>, ConfDefault, <<>>)))
            IN IF ~c.ok THEN [ok |-> FALSE, label |-> <<>>, confidence |-> 0]
               ELSE [ok |-> TRUE, label |-> label, confidence |-> c.n]

\* lines 65-71 without the break: the last matching label wins
RECURSIVE FallbackScanNoBreak(_, _)
FallbackScanNoBreak(labels, low) ==
    IF labels = <<>> THEN [label |-> Other, confidence |-> ConfOther]
    ELSE LET rest == FallbackScanNoBreak(Tail(labels), low)
         IN IF rest.confidence = ConfMatch THEN rest
            ELSE IF Contains(low, LowerStr(Head(labels)))
            THEN [label |-> Head(labels), confidence |-> ConfMatch]
            ELSE rest

\* lines 65-71: the for loop with its break
RECURSIVE FallbackScan(_, _)
FallbackScan(labels, low) ==
    IF labels = <<>> THEN [label |-> Other, confidence |-> ConfOther]
    ELSE IF Contains(low, LowerStr(Head(labels)))
    THEN [label |-> Head(labels), confidence |-> ConfMatch]
    ELSE FallbackScan(Tail(labels), low)

Interpret(o, labels) ==
    LET p == StrictParse(o)
    IN IF p.ok THEN [label |-> p.label, confidence |-> p.confidence]
       ELSE FallbackScan(labels, LowerStr(o))

(***************************************************************************)
(* Inputs of classify_text: the sidebar's label text, the text, the        *)
(* few-shot examples, and what the endpoint answers.                       *)
(***************************************************************************)
MaxCsvLen == 3

CsvAlphabet == {"S", "s", ",", " "}

SeqsUpTo(S, n) == UNION {[1..k -> S] : k \in 0..n}

LabelCsvs == SeqsUpTo(CsvAlphabet, MaxCsvLen)

\* (text, few_shots) pairs passed at demo.py:112
CallArgs ==
    { [text |-> <<"h", "i">>, few_shots |-> <<>>],
      [text |-> <<"s", " ">>,
       few_shots |-> <<[text |-> <<"h", "i">>, label |-> <<"S">>]>>] }

\* A JSON value as the model writes it: its text, and what Python's str() and
\* float() make of the decoded value (flt.ok = FALSE: float() raises).
V(lit, str, fltOk, flt) ==
    [lit |-> lit, str |-> str, flt |-> [ok |-> fltOk, n |-> flt]]

VStr(s, fltOk, flt) == V(<<"\"">> \o s \o <<"\"">>, s, fltOk, flt)

VNull == V(<<"n", "u", "l", "l">>, <<"N", "o", "n", "e">>, FALSE, 0)

VTrue == V(<<"t", "r", "u", "e">>, <<"T", "r", "u", "e">>, TRUE, 100)

VEmptyList == V(<<"[", "]">>, <<"[", "]">>, FALSE, 0)

VS == VStr(<<"S">>, FALSE, 0)

Vs == VStr(<<"s">>, FALSE, 0)

Vx == VStr(<<"x">>, FALSE, 0)

\* A reply of the model: an object given by its pairs, another JSON value, or
\* text that is no JSON; pre and post surround it.
Reply(shape, pairs, sep, pre, post) ==
    [shape |-> shape, pairs |-> pairs, sep |-> sep, pre |-> pre, post |-> post]

Object(pairs) == Reply("object", pairs, <<>>, <<>>, <<>>)

Json(v) == Reply("json", <<>>, <<>>, v.lit, <<>>)

Raw(chars) == Reply("raw", <<>>, <<>>, chars, <<>>)

ObjectReplies ==
    { Object(<< <<KeyLabel, VS>>, <<KeyConfidence, V(<<"0", ".", "9">>, <<"0", ".", "9">>, TRUE, 90)>> >>),
      Reply("object",
            << <<KeyLabel, Vs>>,
               <<KeyConfidence, V(<<"0", ".", "2", "5">>, <<"0", ".", "2", "5">>, TRUE, 25)>> >>,
            <<" ">>, <<" ">>, <<"\n">>),
      Object(<< <<KeyLabel, Vx>>, <<KeyConfidence, V(<<"0", ".", "9">>, <<"0", ".", "9">>, TRUE, 90)>> >>),
      Object(<< <<KeyLabel, VS>> >>),
      Object(<< <<KeyConfidence, V(<<"0", ".", "2">>, <<"0", ".", "2">>, TRUE, 20)>> >>),
      Object(<<>>),
      Object(<< <<KeyLabel, VS>>, <<KeyConfidence, V(<<"9", "5">>, <<"9", "5">>, TRUE, 9500)>> >>),
      Object(<< <<KeyLabel, VS>>, <<KeyConfidence, V(<<"-", "1">>, <<"-", "1">>, TRUE, 0 - 100)>> >>),
      Object(<< <<KeyLabel, Vs>>, <<KeyConfidence, VStr(<<"0", ".", "7">>, TRUE, 70)>> >>),
      Object(<< <<KeyLabel, VS>>, <<KeyConfidence, VStr(<<"h", "i">>, FALSE, 0)>> >>),
      Object(<< <<KeyLabel, VNull>>, <<KeyConfidence, V(<<"1">>, <<"1">>, TRUE, 100)>> >>),
      Object(<< <<KeyLabel, VTrue>>, <<KeyConfidence, VTrue>> >>),
      Object(<< <<KeyLabel, V(<<"7">>, <<"7">>, TRUE, 700)>>, <<KeyConfidence, VNull>> >>),
      Object(<< <<KeyLabel, VS>>, <<KeyConfidence, VEmptyList>> >>),
      Object(<< <<KeyLabel, VS>>, <<KeyLabel, Vx>>,
                <<KeyConfidence, V(<<"1", ".", "0">>, <<"1", ".", "0">>, TRUE, 100)>> >>),
      \* an object followed by more text: json.loads raises "Extra data"
      Reply("object", << <<KeyLabel, Vx>> >>, <<>>, <<>>, <<" ", "s">>) }

OtherReplies ==
    { Json(V(<<"[", "\"", "S", "\"", "]">>, <<>>, FALSE, 0)),
      Json(Vs),
      Json(V(<<"5">>, <<"5">>, TRUE, 500)),
      Json(VNull),
      Raw(<<>>),
      Raw(<<"\n">>),
      Raw(<<"s">>),
      Raw(<<"a", " ", "S", ",">>),
      Raw(<<"s", "S">>),
      Raw(<<"n", "o">>) }

Replies == ObjectReplies \cup OtherReplies

\* the text of a reply
RenderReply(r) ==
    IF r.shape # "object" THEN r.pre \o r.post
    ELSE r.pre \o <<"{">>
         \o Join(<<",">> \o r.sep,
                 [i \in 1..Len(r.pairs) |->
                     <<"\"">> \o r.pairs[i][1] \o <<"\"", ":">> \o r.sep
                     \o r.pairs[i][2].lit])
         \o <<"}">> \o r.post

NoReply == Raw(<<>>)

NotJson == [json |-> FALSE, v |-> JVal("none", <<>>, 0, <<>>)]

JsonBody(v) == [json |-> TRUE, v |-> v]

\* the body {"response": <text>, "done": true}
GenerateBody(txt) ==
    JsonBody(JVal("dict", <<>>, 0,
                  << <<KeyResponse, JVal("str", txt, 0, <<>>)>>,
                     <<Str("done"), JVal("bool", <<>>, 100, <<>>)>> >>))

Outcome(kind, status, reason, cause, body, reply) ==
    [kind |-> kind, status |-> status, reason |-> reason, cause |-> cause,
     body |-> body, reply |-> reply]

NetworkFailures ==
    { Outcome("ConnectionError", 0, "", "Connection refused", NotJson, NoReply),
      Outcome("Timeout", 0, "", "Read timed out", NotJson, NoReply) }

StatusFailures ==
    { Outcome("response", 404, "Not Found", "", NotJson, NoReply),
      Outcome("response", 403, "Forbidden", "", NotJson, NoReply),
      Outcome("response", 500, "Internal Server Error", "", NotJson, NoReply) }

\* success statuses whose body is not the documented one
OddBodies ==
    { NotJson,
      JsonBody(JVal("list", <<>>, 0, <<>>)),
      JsonBody(JVal("dict", <<>>, 0, << <<Str("error"), JVal("str", <<"x">>, 0, <<>>)>> >>)),
      JsonBody(JVal("dict", <<>>, 0, << <<KeyResponse, JVal("NoneType", <<>>, 0, <<>>)>> >>)),
      JsonBody(JVal("dict", <<>>, 0, << <<KeyResponse, JVal("int", <<>>, 500, <<>>)>> >>)) }

Successes ==
    { Outcome("response", 200, "OK", "", b, NoReply) : b \in OddBodies }
    \cup { Outcome("response", 200, "OK", "", GenerateBody(RenderReply(r)), r) : r \in Replies }

\* a 3xx response that requests does not follow (it names no Location)
Unfollowed ==
    { Outcome("response", 304, "Not Modified", "", NotJson, NoReply),
      Outcome("response", 304, "Not Modified", "",
              GenerateBody(RenderReply(Object(<< <<KeyLabel, VS>> >>))),
              Object(<< <<KeyLabel, VS>> >>)) }

HttpOutcomes == NetworkFailures \cup StatusFailures \cup Unfollowed \cup Successes

NoOutcome == Outcome("none", 0, "", "", NotJson, NoReply)

NoResult == [label |-> <<>>, confidence |-> 0, raw |-> <<>>]

(***************************************************************************)
(* classify_text as a state machine.                                       *)
(***************************************************************************)
ClassifyIdle ==
    /\ pc = "idle"
    /\ labels_csv = <<>>
    /\ label_list = <<>>
    /\ text = <<>>
    /\ few_shots = <<>>
    /\ prompt = <<>>
    /\ http = NoOutcome
    /\ out = <<>>
    /\ result = NoResult
    /\ interpreted = FALSE

\* the sidebar has run (demo.py:77-94) and classify_text is entered
ClassifyInit ==
    /\ pc = "start"
    /\ labels_csv \in LabelCsvs
    /\ label_list = LabelList(labels_csv)
    /\ \E a \in CallArgs : text = a.text /\ few_shots = a.few_shots
    /\ prompt = <<>>
    /\ http = NoOutcome
    /\ out = <<>>
    /\ result = NoResult
    /\ interpreted = FALSE

\* demo.py:24-34
BuildPrompt ==
    /\ pc = "start"
    /\ prompt' = Prompt(label_list, text, few_shots)
    /\ pc' = "request"
    /\ UNCHANGED <<labels_csv, label_list, text, few_shots, http, out, result, interpreted>>
    /\ UNCHANGED <<saveVars, imageVars>>

\* demo.py:36-54
Post ==
    /\ pc = "request"
    /\ \E o \in HttpOutcomes :
         /\ http' = o
         /\ IF RequestFails(o)
            THEN result' = ErrorResult(o) /\ pc' = "returned"
            ELSE result' = result /\ pc' = "responded"
    /\ UNCHANGED <<labels_csv, label_list, text, few_shots, prompt, out, interpreted>>
    /\ UNCHANGED <<saveVars, imageVars>>

\* demo.py:56; an exception here leaves classify_text
ReadOut ==
    /\ pc = "responded"
    /\ LET r == ReadResponse(http.body)
       IN /\ out' = r.out
          /\ pc' = IF r.ok THEN "interpret" ELSE "raised"
    /\ UNCHANGED <<labels_csv, label_list, text, few_shots, prompt, http, result, interpreted>>
    /\ UNCHANGED <<saveVars, imageVars>>

\* demo.py:59-73
InterpretAndReturn ==
    /\ pc = "interpret"
    /\ LET r == Interpret(out, label_list)
       IN result' = [label |-> r.label, confidence |-> r.confidence, raw |-> out]
    /\ interpreted' = TRUE
    /\ pc' = "returned"
    /\ UNCHANGED <<labels_csv, label_list, text, few_shots, prompt, http, out>>
    /\ UNCHANGED <<saveVars, imageVars>>

(***************************************************************************)
(* Label Store: the "Save item" handler, demo.py:149-171.                  *)
(***************************************************************************)
MaxSaves == 2

Paths == {"labeled_manual.csv", "other.csv"}

EmailTexts ==
    { <<>>, <<" ">>, <<"a">>, <<" ", "a", ",", "\n">>, <<"\"">>, <<"a", "\n", "a">> }

\* st.selectbox over label_list: None when the list is empty
NoLabel == <<>>

ChosenLabels == {NoLabel, <<"S">>}

Subjects == {<<>>, <<"b", " ">>}

Senders == {<<>>, <<",">>}

\* where the append can raise: nowhere, in open(), in writeheader(), in writerow()
Faults == {"none", "open", "writeheader", "writerow"}

Fieldnames == <<Str("text"), Str("label"), Str("subject"), Str("from")>>

LineTerminator == <<"\r", "\n">>

NeedsQuotes(field) ==
    \E i \in 1..Len(field) : field[i] \in {",", "\"", "\r", "\n"}

RECURSIVE DoubleQuotes(_)
DoubleQuotes(s) ==
    IF s = <<>> THEN <<>>
    ELSE (IF Head(s) = "\"" THEN <<"\"", "\"">> ELSE <<Head(s)>>) \o DoubleQuotes(Tail(s))

\* csv.writer with the default (excel) dialect
CsvField(field) ==
    IF NeedsQuotes(field) THEN <<"\"">> \o DoubleQuotes(field) \o <<"\"">> ELSE field

CsvLine(fields) ==
    Join(<<",">>, [i \in 1..Len(fields) |-> CsvField(fields[i])]) \o LineTerminator

\* the dict handed to writer.writerow, in fieldnames order (demo.py:163-168)
RowOf(email_text, chosen_label, subj, sender) ==
    <<Strip(email_text), chosen_label, Strip(subj), Strip(sender)>>

NoFile == [exists |-> FALSE, data |-> <<>>]

\* the header written on every save
NewFileAlways(file) == TRUE

\* os.path.exists(csv_path) is false
NewFile(file) == ~file.exists

\* the file after the with block, left normally or by the exception of `fault`
Appended(file, row, fault) ==
    LET new_file == NewFile(file)
        header == IF new_file THEN CsvLine(Fieldnames) ELSE <<>>
    IN CASE fault = "open" -> file
         [] fault = "writeheader" -> [exists |-> TRUE, data |-> file.data]
         [] fault = "writerow" -> [exists |-> TRUE, data |-> file.data \o header]
         [] OTHER -> [exists |-> TRUE, data |-> file.data \o header \o CsvLine(row)]

\* a fault in writeheader() needs writeheader() to be called
FaultPossible(file, fault) == fault = "writeheader" => NewFile(file)

NoSave == [outcome |-> "none", path |-> "", before |-> NoFile]

SaveIdle ==
    /\ files = [p \in Paths |-> NoFile]
    /\ saved = [p \in Paths |-> <<>>]
    /\ failed = [p \in Paths |-> 0]
    /\ lastSave = NoSave

SaveInit == SaveIdle

\* clicks on "Save item" that reached the try block so far
Clicks ==
    LET n[S \in SUBSET Paths] ==
          IF S = {} THEN 0
          ELSE LET p == CHOOSE q \in S : TRUE
               IN Len(saved[p]) + failed[p] + n[S \ {p}]
    IN n[Paths]

\* one click on "Save item" with the form as filled in
SaveItem ==
    /\ Clicks < MaxSaves
    /\ \E csv_path \in Paths, email_text \in EmailTexts, chosen_label \in ChosenLabels,
          subj \in Subjects, sender \in Senders, fault \in Faults :
         /\ FaultPossible(files[csv_path], fault)
         /\ IF Strip(email_text) = <<>> \/ chosen_label = NoLabel
            THEN \* st.error("Please paste some text ...") / ("Please select a label.")
                 /\ lastSave' = [outcome |-> "rejected", path |-> csv_path,
                                 before |-> files[csv_path]]
                 /\ UNCHANGED <<files, saved, failed>>
            ELSE /\ files' = [files EXCEPT ![csv_path] =
                                 Appended(@, RowOf(email_text, chosen_label, subj, sender),
                                          fault)]
                 /\ IF fault = "none"
                    THEN \* st.success
                         /\ saved' = [saved EXCEPT ![csv_path] =
                                         Append(@, [text |-> email_text,
                                                    label |-> chosen_label,
                                                    subject |-> subj,
                                                    sender |-> sender])]
                         /\ failed' = failed
                         /\ lastSave' = [outcome |-> "saved", path |-> csv_path,
                                         before |-> files[csv_path]]
                    ELSE \* st.error("Failed to save: ...")
                         /\ failed' = [failed EXCEPT ![csv_path] = @ + 1]
                         /\ saved' = saved
                         /\ lastSave' = [outcome |-> "failed", path |-> csv_path,
                                         before |-> files[csv_path]]
    /\ UNCHANGED <<classifyVars, imageVars>>

(***************************************************************************)
(* image.py: one run of the script per interaction.                        *)
(***************************************************************************)
MaxRuns == 4

\* what the uploader holds: nothing, or bytes that decode, that Image.open
\* rejects, or whose orientation data exif_transpose rejects
Uploads == {"none", "valid", "corrupt", "bad_exif"}

\* outcomes of the caption request, image.py:69-87
CaptionOutcomes == {"caption", "empty", "request_failed"}

MODEL_NAME == "qwen2.5vl:3b"

DefaultCaptionPrompt == "Describe this photo in one vivid, specific sentence."

CaptionPrompts == {DefaultCaptionPrompt, "Describe this photo.", ""}

\* the json= argument of image.py:69-76
CaptionBody(p) ==
    [model |-> MODEL_NAME, prompt |-> p, images |-> <<"img_b64">>, stream |-> FALSE]

ImageIdle ==
    /\ ipc = "idle"
    /\ upload = "none"
    /\ clicked = FALSE
    /\ caption_prompt = DefaultCaptionPrompt
    /\ img = "none"
    /\ reencoded = FALSE
    /\ buttonOffered = FALSE
    /\ requestsSent = <<>>
    /\ reported = <<>>
    /\ runs = 0

ImageInit == ImageIdle

\* Image.open and ImageOps.exif_transpose on the uploaded bytes
Decoded(bytes) ==
    CASE bytes = "valid" -> "ok"
      [] bytes = "corrupt" -> "open_fails"
      [] bytes = "bad_exif" -> "transpose_fails"
      [] OTHER -> "none"

DecodeFailed(i) == i \in {"open_fails", "transpose_fails"}

\* the except block without st.stop()
AfterDecodeNoStop(i) == "decoded"

\* where the script goes after the try block of image.py:25-30
AfterDecode(i) == IF DecodeFailed(i) THEN "stopped" ELSE "decoded"

\* an interaction reruns the script: a new upload, an edit of the prompt when
\* the last run rendered it, or a click on the caption button when the last run
\* rendered it
Rerun ==
    /\ ipc \in {"idle", "done", "stopped"}
    /\ runs < MaxRuns
    /\ \/ /\ upload' \in Uploads
          /\ clicked' = FALSE
          /\ caption_prompt' = caption_prompt
       \/ /\ buttonOffered
          /\ upload' = upload
          /\ clicked' = FALSE
          /\ caption_prompt' \in CaptionPrompts
       \/ /\ buttonOffered
          /\ upload' = upload
          /\ clicked' = TRUE
          /\ caption_prompt' = caption_prompt
    /\ runs' = runs + 1
    /\ ipc' = "top"
    /\ img' = "none"
    /\ reencoded' = FALSE
    /\ buttonOffered' = FALSE
    /\ requestsSent' = <<>>
    /\ reported' = <<>>
    /\ UNCHANGED <<classifyVars, saveVars>>

\* image.py:20 and 89-90
NoUpload ==
    /\ ipc = "top"
    /\ upload = "none"
    /\ reported' = Append(reported, "info: Drop an image above")
    /\ ipc' = "done"
    /\ UNCHANGED <<upload, clicked, caption_prompt, img, reencoded, buttonOffered, requestsSent, runs>>
    /\ UNCHANGED <<classifyVars, saveVars>>

\* image.py:20-30
Decode ==
    /\ ipc = "top"
    /\ upload # "none"
    /\ img' = Decoded(upload)
    /\ ipc' = AfterDecode(Decoded(upload))
    /\ reported' = IF DecodeFailed(Decoded(upload))
                   THEN Append(reported, "error: Could not read that image")
                   ELSE reported
    /\ UNCHANGED <<upload, clicked, caption_prompt, reencoded, buttonOffered, requestsSent, runs>>
    /\ UNCHANGED <<classifyVars, saveVars>>

\* image.py:32-57
DisplayAndEncode ==
    /\ ipc = "decoded"
    /\ reencoded' = TRUE
    /\ ipc' = "encoded"
    /\ UNCHANGED <<upload, clicked, caption_prompt, img, buttonOffered, requestsSent, reported, runs>>
    /\ UNCHANGED <<classifyVars, saveVars>>

\* image.py:59-66
OfferButton ==
    /\ ipc = "encoded"
    /\ buttonOffered' = TRUE
    /\ ipc' = IF clicked THEN "request" ELSE "done"
    /\ UNCHANGED <<upload, clicked, caption_prompt, img, reencoded, requestsSent, reported, runs>>
    /\ UNCHANGED <<classifyVars, saveVars>>

\* image.py:67-87
CaptionRequest ==
    /\ ipc = "request"
    /\ requestsSent' = Append(requestsSent, CaptionBody(caption_prompt))
    /\ \E o \in CaptionOutcomes :
         reported' = Append(reported,
                            CASE o = "caption" -> "caption"
                              [] o = "empty" -> "warning: No caption returned."
                              [] OTHER -> "error: Ollama request failed")
    /\ ipc' = "done"
    /\ UNCHANGED <<upload, clicked, caption_prompt, img, reencoded, buttonOffered, runs>>
    /\ UNCHANGED <<classifyVars, saveVars>>

(***************************************************************************)
(* Specifications: one per script part.                                    *)
(***************************************************************************)
Init == ClassifyInit /\ SaveIdle /\ ImageIdle

Next == BuildPrompt \/ Post \/ ReadOut \/ InterpretAndReturn

Spec == Init /\ [][Next]_vars

InitSave == ClassifyIdle /\ SaveInit /\ ImageIdle

NextSave == SaveItem

SpecSave == InitSave /\ [][NextSave]_vars

InitImage == ClassifyIdle /\ SaveIdle /\ ImageInit

NextImage == Rerun \/ NoUpload \/ Decode \/ DisplayAndEncode \/ OfferButton \/ CaptionRequest

SpecImage == InitImage /\ [][NextImage]_vars

(***************************************************************************)
(* Notions the properties are stated with.                                 *)
(***************************************************************************)
Range(f) == {f[i] : i \in DOMAIN f}

Min(S) == CHOOSE x \in S : \A y \in S : x <= y

\* the HTTP call ended in one of the three failure kinds
NetworkFailed == http.kind \in {"ConnectionError", "Timeout"}

Status404 == http.kind = "response" /\ http.status = 404

\* a status raise_for_status() raises for, other than 404
OtherErrorStatus ==
    http.kind = "response" /\ http.status >= 400 /\ http.status < 600 /\ http.status # 404

\* a status outside 2xx
NonSuccessStatus == http.kind = "response" /\ (http.status < 200 \/ http.status >= 300)

\* how often needle occurs in hay
Occurrences(hay, needle) ==
    Cardinality({i \in 1..(Len(hay) - Len(needle) + 1) :
                    SubSeq(hay, i, i + Len(needle) - 1) = needle})

\* the instruction sentence that names the labels
InstructionClause(p) ==
    LET a == CHOOSE i \in 1..Len(p) : p[i] = ChooseClause
        b == Min({i \in a..Len(p) : p[i] = ClauseEnd})
    IN SubSeq(p, a, b)

\* the last value a reply object gives for key; none is absent
HasKey(r, key) == \E i \in 1..Len(r.pairs) : r.pairs[i][1] = key

LastValue(r, key) ==
    r.pairs[CHOOSE i \in 1..Len(r.pairs) :
                /\ r.pairs[i][1] = key
                /\ \A j \in (i + 1)..Len(r.pairs) : r.pairs[j][1] # key][2]

\* the reply is one JSON object and nothing else
WellFormedObject(r) ==
    /\ r.shape = "object"
    /\ \A i \in 1..Len(r.pre) : IsSpace(r.pre[i])
    /\ \A i \in 1..Len(r.post) : IsSpace(r.post[i])

ConfidenceCoercible(r) ==
    HasKey(r, KeyConfidence) => LastValue(r, KeyConfidence).flt.ok

ExpectedLabel(r) == IF HasKey(r, KeyLabel) THEN LastValue(r, KeyLabel).str ELSE Other

ExpectedConfidence(r) ==
    IF HasKey(r, KeyConfidence) THEN LastValue(r, KeyConfidence).flt.n ELSE 50

\* positions of the labels whose lower-cased form occurs in the lower-cased text
Matching(labels, txt) ==
    {i \in 1..Len(labels) : Contains(LowerStr(txt), LowerStr(labels[i]))}

\* csv.reader with the default dialect over the text of a file: the rows, each a
\* sequence of fields.  st is "start" (of a field), "plain", "quoted" or "endquote".
RECURSIVE CsvRows(_, _, _, _, _, _)
CsvRows(s, i, st, field, row, rows) ==
    IF i > Len(s)
    THEN IF st = "start" /\ row = <<>> THEN rows ELSE Append(rows, Append(row, field))
    ELSE LET c == s[i]
             eol == IF c = "\r" /\ At(s, i + 1) = "\n" THEN i + 2 ELSE i + 1
         IN CASE st = "quoted" /\ c = "\"" -> CsvRows(s, i + 1, "endquote", field, row, rows)
              [] st = "quoted" /\ c # "\"" ->
                   CsvRows(s, i + 1, "quoted", Append(field, c), row, rows)
              [] st = "endquote" /\ c = "\"" ->
                   CsvRows(s, i + 1, "quoted", Append(field, c), row, rows)
              [] st # "quoted" /\ c = "," ->
                   CsvRows(s, i + 1, "start", <<>>, Append(row, field), rows)
              [] st # "quoted" /\ c \in {"\r", "\n"} ->
                   CsvRows(s, eol, "start", <<>>, <<>>,
                           Append(rows, IF st = "start" /\ row = <<>> THEN <<>>
                                        ELSE Append(row, field)))
              [] st = "start" /\ c = "\"" -> CsvRows(s, i + 1, "quoted", field, row, rows)
              [] OTHER -> CsvRows(s, i + 1, "plain", Append(field, c), row, rows)

ReadCsv(s) == CsvRows(s, 1, "start", <<>>, <<>>, <<>>)

\* the row a saved form stands for
SavedRow(r) == <<Strip(r.text), r.label, Strip(r.subject), Strip(r.sender)>>

(***************************************************************************)
(* Properties.                                                             *)
(***************************************************************************)

\* C1: classify_text never raises: whatever the HTTP call yields (network
\* failure, any status, any body), it ends by returning a result.
C1_NeverRaises == pc # "raised"

C3_LabelFromLabelSet ==
    pc = "returned" => result.label \in Range(label_list) \cup {Other, ERROR}

\* C4: when the reply cannot be strictly parsed (no JSON, JSON that is no
\* object, or a confidence that cannot be converted), the result is the first
\* label of label_list, in list order, whose lower-cased form occurs in the
\* lower-cased reply, with confidence 0.6, and "Other" with 0.3 when none does:
\* a function of the reply text and the order of label_list alone.
C4_FallbackFirstMatch ==
    (pc = "returned" /\ interpreted
        /\ ~(WellFormedObject(http.reply) /\ ConfidenceCoercible(http.reply))) =>
        LET m == Matching(label_list, result.raw)
        IN /\ result.raw = Strip(RenderReply(http.reply))
           /\ IF m = {}
              THEN result.label = Other /\ result.confidence = 30
              ELSE result.label = label_list[Min(m)] /\ result.confidence = 60

\* two different labels both occur in the reply and the first one is returned
C4_Witness ==
    /\ pc = "returned" /\ interpreted
    /\ ~(WellFormedObject(http.reply) /\ ConfidenceCoercible(http.reply))
    /\ Cardinality(Matching(label_list, result.raw)) = 2
    /\ label_list[1] # label_list[2]
    /\ result.label = label_list[1]
    /\ result.confidence = 60

\* C5 as stated: every reply that is a well-formed JSON object yields the
\* object's label as a string ("Other" when absent) and its confidence as a
\* float (0.5 when absent); the fallback is not applied.
C5_EveryObjectIsParsed ==
    (pc = "returned" /\ interpreted /\ WellFormedObject(http.reply)) =>
        /\ result.label = ExpectedLabel(http.reply)
        /\ ConfidenceCoercible(http.reply) =>
               result.confidence = ExpectedConfidence(http.reply)

\* C5 as amended: a reply that is a well-formed JSON object whose confidence is
\* absent or can be converted to a float yields exactly the object's label as a
\* string ("Other" when absent) and its confidence as a float (0.5 when
\* absent), whatever label_list holds.
C5_CoercibleObjectIsParsed ==
    (pc = "returned" /\ interpreted /\ WellFormedObject(http.reply)
        /\ ConfidenceCoercible(http.reply)) =>
        /\ result.label = ExpectedLabel(http.reply)
        /\ result.confidence = ExpectedConfidence(http.reply)
        /\ result.raw = Strip(RenderReply(http.reply))

\* an object whose label is no member of label_list comes back as it is
C5_Witness ==
    /\ pc = "returned" /\ interpreted
    /\ WellFormedObject(http.reply) /\ ConfidenceCoercible(http.reply)
    /\ label_list # <<>>
    /\ result.label = <<"x">>
    /\ result.confidence = 90

\* C6: the returned confidence lies in [0, 1].
C6_ConfidenceInUnitRange ==
    pc = "returned" => result.confidence >= 0 /\ result.confidence <= 100

\* C7: on a path that had no file, after n >= 1 saves that all succeeded the
\* file reads as the header row text,label,subject,from followed by exactly the
\* n saved rows, in save order.
C7_HeaderOnceThenRows ==
    \A p \in Paths :
        (failed[p] = 0 /\ Len(saved[p]) >= 1) =>
            /\ files[p].exists
            /\ ReadCsv(files[p].data) =
                   <<Fieldnames>> \o [i \in 1..Len(saved[p]) |-> SavedRow(saved[p][i])]

\* two saves, the first with text that needs quoting
C7_Witness ==
    \E p \in Paths :
        /\ failed[p] = 0
        /\ Len(saved[p]) = 2
        /\ saved[p][1].text = <<" ", "a", ",", "\n">>
        /\ saved[p][2].text = <<"a", "\n", "a">>

\* C8: a save reported as failed leaves the file as it was before the click.
C8_FailedSaveLeavesStore ==
    lastSave.outcome = "failed" => files[lastSave.path] = lastSave.before

\* C9: when Image.open or exif_transpose fails, the error is reported and the
\* run stops there: nothing is re-encoded, the caption button is not rendered
\* and no caption request is sent in that run.
C9_DecodeFailureHalts ==
    DecodeFailed(img) =>
        /\ ipc = "stopped"
        /\ reported = <<"error: Could not read that image">>
        /\ ~reencoded
        /\ ~buttonOffered
        /\ requestsSent = <<>>

\* a second upload, after a run that offered the button, fails to decode
C9_Witness ==
    /\ DecodeFailed(img)
    /\ ipc = "stopped"
    /\ runs >= 2
    /\ reported # <<>>

\* C10: with at least one label, the prompt names every label exactly once in
\* the instruction clause and ends with the text followed by "Label:".
C10_PromptNamesEachLabelOnce ==
    (pc # "start" /\ label_list # <<>>) =>
        /\ \A i \in 1..Len(label_list) :
               Occurrences(InstructionClause(prompt), PyRepr(label_list[i])) = 1
        /\ EndsWith(prompt, text \o <<"\n", "Label:">>)

====
